---- MODULE Spec2Model ----
(***************************************************************************)
(* Model of the Aerothon RAG server: the EnsembleRetriever's Reciprocal    *)
(* Rank Fusion (server/models/custom_retrievers.py), the chat turns        *)
(* (server/models/rag_chat.py, rag_chat_dual.py) and the HTTP routes that  *)
(* authorise and dispatch them (server/routes/main.py).                    *)
(*                                                                         *)
(* Three specifications share the module:                                  *)
(*   SpecFusion  one call of EnsembleRetriever._get_relevant_documents on  *)
(*               inputs drawn from bounded sets;                           *)
(*   Spec        the server from empty tables: every route, users,         *)
(*               conversations, the history store and one chat call;       *)
(*   SpecChat    the conversation routes over a populated database, with   *)
(*               chat calls that follow one another or overlap.            *)
(*                                                                         *)
(* Arithmetic.  The code scores in floating point, weight * (1/(rank+k)).  *)
(* The model scores in exact rationals: a weight is an integer number of   *)
(* halves (1 is 0.5, 2 is 1.0) and a score s stands for the real number    *)
(* s / (2 * ScoreDen), ScoreDen being the product of all rank + k that can *)
(* occur, so that every division below is exact.                           *)
(***************************************************************************)
EXTENDS Integers, Sequences, FiniteSets, TLC

VARIABLES
    \* ---- one call of EnsembleRetriever._get_relevant_documents ----
    retrievers,     \* what each retriever of the ensemble does when invoked
    weights,        \* EnsembleRetriever.weights (halves)
    all_results,    \* the local all_results
    rrf_score,      \* the local rrf_score (content -> score)
    sorted_docs,    \* the value returned
    ens_pc,         \* "idle" | "returned" | "raised"
    \* ---- the server ----
    users,          \* table users: user_id is the index
    conversations,  \* table chat_conversations: conversation_id is the index
    clock,          \* datetime.now(), as a tick
    history,        \* the Neo4j message store: session_id -> messages
    turns,          \* the calls of rag_chat / rag_chat_dual, in flight or over
    kind,           \* what _initialize_components built for each retriever
    resp,           \* the response being returned to a client, or NoResp
    budget          \* how many more chat calls the run may begin

ens_vars == <<retrievers, weights, all_results, rrf_score, sorted_docs, ens_pc>>

server_vars == <<users, conversations, clock, history, turns, kind, resp, budget>>

vars == <<retrievers, weights, all_results, rrf_score, sorted_docs, ens_pc,
          users, conversations, clock, history, turns, kind, resp, budget>>

\* ------------------------------------------------------------------ bounds
\* Longest ranked list a retriever returns in SpecFusion.
MaxLen == 3

\* Rows of the users table, rows of the chat_conversations table, and calls of
\* rag_chat / rag_chat_dual begun, in Spec.
MaxUsers == 2
MaxConvs == 1
MaxTurns == 1

\* Calls of rag_chat / rag_chat_dual begun in SpecChat, where they overlap.
MaxChatTurns == 2

\* Longest list one backend returns in Spec and SpecChat.
MaxHits == 1

\* ------------------------------------------------------- generic helpers
Range(s) == {s[i] : i \in 1..Len(s)}

RECURSIVE SeqsUpTo(_, _)
\* All sequences over S of length at most n.
SeqsUpTo(S, n) ==
    IF n = 0 THEN {<<>>}
    ELSE LET shorter == SeqsUpTo(S, n - 1)
         IN  shorter \cup {Append(s, x) : s \in {t \in shorter : Len(t) = n - 1}, x \in S}

RECURSIVE SumOver(_, _)
\* Sum of f[x] over the finite set S.
SumOver(S, f) ==
    IF S = {} THEN 0
    ELSE LET x == CHOOSE y \in S : TRUE
         IN  f[x] + SumOver(S \ {x}, f)

RECURSIVE Flatten(_)
\* The lists of a sequence of lists, one after the other.
Flatten(ls) == IF ls = <<>> THEN <<>> ELSE Head(ls) \o Flatten(Tail(ls))

\* --------------------------------------------------------------- documents
\* langchain Document: page_content and metadata (source, page).
Document(content, source, page) ==
    [page_content |-> content, metadata |-> [source |-> source, page |-> page]]

\* The chunks the indexes hold in SpecFusion. The text "doc1" is stored twice,
\* under two sources.
Documents ==
    { Document("doc1", "a.pdf", 1), Document("doc1", "b.pdf", 7),
      Document("doc2", "a.pdf", 2), Document("doc3", "a.pdf", 3) }

Contents == {d.page_content : d \in Documents}

\* What one retriever does when invoked: it returns a ranked list or raises.
Returns(docs) == [raises |-> FALSE, docs |-> docs]
Raises == [raises |-> TRUE, docs |-> <<>>]

\* ------------------------------------------------- EnsembleRetriever (RRF)
k == 60

\* weights[i] if i < len(weights) else 1.0 (1.0 is two halves).
DefaultWeight == 2

RECURSIVE ProdRanks(_)
ProdRanks(n) == IF n = 0 THEN 1 ELSE (n - 1 + k) * ProdRanks(n - 1)

\* Common denominator of every 1 / (rank + k), rank < MaxLen.
ScoreDen == ProdRanks(MaxLen)

\* Step 1: invoke every retriever in order; an exception contributes [].
GatherResults(rs) ==
    [i \in 1..Len(rs) |-> IF rs[i].raises THEN <<>> ELSE rs[i].docs]

\* The try / except left out: a retriever's exception leaves the ensemble.
ErrorEscapes_uncaught(rs) == \E i \in 1..Len(rs) : rs[i].raises

\* except Exception: no retriever's exception leaves the ensemble.
ErrorEscapes(rs) == FALSE

\* Python's ws[i] raises IndexError outside the list; the code guards it.
WeightAt_unguarded(ws, i) ==
    IF i <= Len(ws) THEN [raised |-> FALSE, value |-> ws[i]]
    ELSE [raised |-> TRUE, value |-> 0]

WeightAt(ws, i) ==
    IF i <= Len(ws) THEN [raised |-> FALSE, value |-> ws[i]]
    ELSE [raised |-> FALSE, value |-> DefaultWeight]

\* enumerate(docs) counts ranks from 0; langchain's own ensemble counts from 1.
RrfTerm_rank_from_one(weight, rank) == weight * (ScoreDen \div (rank + 1 + k))

\* score = weight * (1 / (rank + k)), rank counted from 0.
RrfTerm(weight, rank) == weight * (ScoreDen \div (rank + k))

RECURSIVE ListScore_first_only(_, _, _, _)
\* A list counted once per content: only the first rank of key adds a term.
ListScore_first_only(docs, weight, key, rank) ==
    IF docs = <<>> THEN 0
    ELSE IF Head(docs).page_content = key THEN RrfTerm(weight, rank)
         ELSE ListScore_first_only(Tail(docs), weight, key, rank + 1)

RECURSIVE ListScore(_, _, _, _)
\* The inner loop: what the list docs, from 0-based rank on, adds to key's score.
ListScore(docs, weight, key, rank) ==
    IF docs = <<>> THEN 0
    ELSE (IF Head(docs).page_content = key THEN RrfTerm(weight, rank) ELSE 0)
         + ListScore(Tail(docs), weight, key, rank + 1)

\* rrf_score[doc_key] = score instead of +=: the last term overwrites.
RrfScore_overwrite(results, ws) ==
    [key \in {d.page_content : d \in Range(Flatten(results))} |->
        LET hits == {p \in (1..Len(results)) \X (0..Len(Flatten(results))) :
                        /\ p[2] < Len(results[p[1]])
                        /\ results[p[1]][p[2] + 1].page_content = key}
            last == CHOOSE p \in hits :
                        \A q \in hits : q[1] < p[1] \/ (q[1] = p[1] /\ q[2] <= p[2])
        IN  RrfTerm(WeightAt(ws, last[1]).value, last[2])]

\* Step 2: rrf_score[doc_key] += score, over every list and every rank.
RrfScore(results, ws) ==
    [key \in {d.page_content : d \in Range(Flatten(results))} |->
        SumOver(1..Len(results),
                [i \in 1..Len(results) |->
                    ListScore(results[i], WeightAt(ws, i).value, key, 0)])]

RECURSIVE FirstOccurrences_last_wins(_, _)
\* unique_docs[doc.page_content] = doc without the "not in" test: the key keeps
\* its place in the dict and the later chunk replaces the earlier one.
FirstOccurrences_last_wins(docs, seen) ==
    IF docs = <<>> THEN seen
    ELSE FirstOccurrences_last_wins(
            Tail(docs),
            IF \E j \in 1..Len(seen) : seen[j].page_content = Head(docs).page_content
            THEN [j \in 1..Len(seen) |->
                    IF seen[j].page_content = Head(docs).page_content
                    THEN Head(docs) ELSE seen[j]]
            ELSE Append(seen, Head(docs)))

RECURSIVE FirstOccurrences(_, _)
\* unique_docs: a dict keyed by content, filled in list order then rank order;
\* its values() come in insertion order.
FirstOccurrences(docs, seen) ==
    IF docs = <<>> THEN seen
    ELSE FirstOccurrences(
            Tail(docs),
            IF \E j \in 1..Len(seen) : seen[j].page_content = Head(docs).page_content
            THEN seen ELSE Append(seen, Head(docs)))

UniqueDocs(results) == FirstOccurrences(Flatten(results), <<>>)

RECURSIVE InsertDescending_before_equals(_, _, _)
\* An unstable sort: d goes before the elements whose score equals its own.
InsertDescending_before_equals(sorted, d, score) ==
    IF sorted = <<>> THEN <<d>>
    ELSE IF score[Head(sorted).page_content] > score[d.page_content]
         THEN <<Head(sorted)>> \o InsertDescending_before_equals(Tail(sorted), d, score)
         ELSE <<d>> \o sorted

RECURSIVE InsertDescending(_, _, _)
\* Puts d after every element whose score is at least d's.
InsertDescending(sorted, d, score) ==
    IF sorted = <<>> THEN <<d>>
    ELSE IF score[Head(sorted).page_content] >= score[d.page_content]
         THEN <<Head(sorted)>> \o InsertDescending(Tail(sorted), d, score)
         ELSE <<d>> \o sorted

RECURSIVE InsertAscending(_, _, _)
InsertAscending(sorted, d, score) ==
    IF sorted = <<>> THEN <<d>>
    ELSE IF score[Head(sorted).page_content] <= score[d.page_content]
         THEN <<Head(sorted)>> \o InsertAscending(Tail(sorted), d, score)
         ELSE <<d>> \o sorted

RECURSIVE SortAscending(_, _, _)
SortAscending(docs, score, acc) ==
    IF docs = <<>> THEN acc
    ELSE SortAscending(Tail(docs), score, InsertAscending(acc, Head(docs), score))

RECURSIVE SortDescending(_, _, _)
SortDescending(docs, score, acc) ==
    IF docs = <<>> THEN acc
    ELSE SortDescending(Tail(docs), score, InsertDescending(acc, Head(docs), score))

\* sorted() without reverse=True.
Sorted_ascending(docs, score) == SortAscending(docs, score, <<>>)

\* The sort left out: unique_docs.values() returned as they are.
Sorted_unsorted(docs, score) == docs

\* Step 3: sorted(unique_docs.values(), key=rrf_score, reverse=True). Python's
\* sort is stable, also with reverse=True: equal scores keep insertion order.
Sorted(docs, score) == SortDescending(docs, score, <<>>)

\* EnsembleRetriever._get_relevant_documents(query), for retrievers that
\* behave as rs on this query.
get_relevant_documents(rs, ws) ==
    LET results == GatherResults(rs)
        score   == RrfScore(results, ws)
    IN  IF ErrorEscapes(rs) \/ \E i \in 1..Len(results) : WeightAt(ws, i).raised
        THEN [raised |-> TRUE, all_results |-> results, rrf_score |-> <<>>,
              docs |-> <<>>]
        ELSE [raised |-> FALSE, all_results |-> results, rrf_score |-> score,
              docs |-> Sorted(UniqueDocs(results), score)]

\* ------------------------------------------------------------ SpecFusion
\* The ensembles the program builds hold two retrievers (vector, BM25).
NumRetrievers == 2

\* An index answers with stored chunks, each at most once, best first. Two
\* stored chunks may hold the same text, so a text can recur in one list.
RankedLists ==
    {l \in SeqsUpTo(Documents, MaxLen) :
        \A i, j \in 1..Len(l) : i # j => l[i] # l[j]}

RetrieverBehaviours == {Raises} \cup {Returns(l) : l \in RankedLists}

InitFusion ==
    /\ retrievers = <<>>
    /\ weights = <<>>
    /\ all_results = <<>>
    /\ rrf_score = <<>>
    /\ sorted_docs = <<>>
    /\ ens_pc = "idle"

\* One call of _get_relevant_documents on an ensemble of n retrievers.
Invoke ==
    /\ ens_pc = "idle"
    /\ \E n \in 0..NumRetrievers :
      \E rs \in [1..n -> RetrieverBehaviours] :
        \E m \in {j \in 0..n : j >= n - 1} :
          \E ws \in [1..m -> {1, 2}] :
            LET r == get_relevant_documents(rs, ws)
            IN  /\ retrievers' = rs
                /\ weights' = ws
                /\ all_results' = r.all_results
                /\ rrf_score' = r.rrf_score
                /\ sorted_docs' = r.docs
                /\ ens_pc' = IF r.raised THEN "raised" ELSE "returned"
    /\ UNCHANGED server_vars

\* The call is over: its locals are discarded (FusionScore is per call).
Discard ==
    /\ ens_pc # "idle"
    /\ retrievers' = <<>>
    /\ weights' = <<>>
    /\ all_results' = <<>>
    /\ rrf_score' = <<>>
    /\ sorted_docs' = <<>>
    /\ ens_pc' = "idle"
    /\ UNCHANGED server_vars

FusionNext == Invoke \/ Discard

\* SpecFusion leaves the server out: empty tables, no request.
ServerOff ==
    /\ users = <<>>
    /\ conversations = <<>>
    /\ clock = 0
    /\ history = <<>>
    /\ turns = <<>>
    /\ kind = [rag_chat |-> "ensemble", dual_public |-> "ensemble",
               dual_secure |-> "ensemble"]
    /\ resp = [route |-> "none"]
    /\ budget = 0

\* The ensemble on its own.
InitEnsemble == InitFusion /\ ServerOff

SpecFusion == InitEnsemble /\ [][FusionNext]_vars

\* ================================================================ server
\* ------------------------------------------------------------ data model
UserType == {"admin", "user", "ruser"}

ConversationMode == {"public", "dual"}

\* Python's None, for the optional strings of a request or a row.
None == "None"

\* The usernames clients ask for (the ones taken, and one that is free), and the
\* bearer tokens they present: a token signed by the server carries its username
\* as "sub"; "forged" fails to decode.
Usernames == {"name" \o ToString(i) : i \in 1..(Len(users) + 1)}

Tokens == Usernames \cup {"forged"}

\* What clients send as user_input, as the title of a new conversation, as the
\* mode of a listing and as the session_id of the legacy chat routes.
UserInputs == {"hello"}

RequestTitles == {None}

ListModes == {None, "public", "dual", "secret"}

SessionIds == {"default_user"}

\* The stored chunks of the two Chroma collections (public, secure) in Spec;
\* the secure collection holds the text of the public chunk under its own source.
PublicDocuments == {Document("doc1", "a.pdf", 1)}

SecureDocuments == {Document("doc1", "s.pdf", 4)}

\* What one backend (the vector retriever or BM25) of a collection can do.
BackendBehaviours(stored) ==
    {Raises} \cup
    {Returns(l) : l \in {m \in SeqsUpTo(stored, MaxHits) :
                            \A i, j \in 1..Len(m) : i # j => m[i] # m[j]}}

\* ------------------------------------------------------------- responses
\* The record of a response; user_id and conversation_id say, for the
\* conversation routes, who asked and for which conversation.
Response(route, role, mode, status) ==
    [route |-> route, role |-> role, target_mode |-> mode, status |-> status,
     items |-> <<>>, history |-> <<>>, answer |-> None, sources |-> {},
     docs |-> <<>>, context |-> <<>>, context_text |-> "",
     store_reads |-> 0, turn |-> 0,
     calls |-> <<>>, degraded |-> {}, failed_at |-> None,
     user_id |-> 0, conversation_id |-> 0]

NoResp == Response("none", None, None, 0)

\* ------------------------------------------------ authentication helpers
\* jwt.decode: the payload, or 401 for a token that does not verify.
verify_token(token) ==
    IF token = "forged" THEN [status |-> 401, sub |-> None]
    ELSE [status |-> 200, sub |-> token]

\* db.query(User).filter(User.username == username).first(); 0 for no row.
FindUser(username) ==
    IF \E i \in 1..Len(users) : users[i].username = username
    THEN CHOOSE i \in 1..Len(users) : users[i].username = username
    ELSE 0

get_current_user(token) ==
    LET payload == verify_token(token)
    IN  IF payload.status # 200 THEN [status |-> 401, user_id |-> 0]
        ELSE IF FindUser(payload.sub) = 0 THEN [status |-> 401, user_id |-> 0]
        ELSE [status |-> 200, user_id |-> FindUser(payload.sub)]

\* The role check left out.
RoleAllowed_anyone(type, allowed_roles) == TRUE

\* current_user.type not in allowed_roles -> 403.
RoleAllowed(type, allowed_roles) == type \in allowed_roles

require_roles(allowed_roles, token) ==
    LET current == get_current_user(token)
    IN  IF current.status # 200 THEN current
        ELSE IF ~RoleAllowed(users[current.user_id].type, allowed_roles)
             THEN [status |-> 403, user_id |-> current.user_id]
             ELSE current

\* The role of the caller, for the record of a response.
RoleOf(current) == IF current.user_id = 0 THEN None ELSE users[current.user_id].type

\* Every role may use both modes.
allowed_conversation_modes_for_any(type) == {"public", "dual"}

\* ruser: public only; user/admin: dual only.
allowed_conversation_modes_for(type) ==
    IF type = "ruser" THEN {"public"} ELSE {"dual"}

\* f"u{user.user_id}_c{conversation_id}"
neo_session_key(user_id, conversation_id) ==
    "u" \o ToString(user_id) \o "_c" \o ToString(conversation_id)

\* --------------------------------------------------------- user routes
UNCHANGED_chat == UNCHANGED <<history, turns, kind, budget>>

\* POST /create-admin
create_admin ==
    /\ resp = NoResp
    /\ \E username \in Usernames :
        IF FindUser(username) # 0
        THEN /\ resp' = Response("create_admin", None, None, 400)
             /\ UNCHANGED users
        ELSE /\ Len(users) < MaxUsers
             /\ users' = Append(users, [username |-> username, type |-> "admin"])
             /\ resp' = Response("create_admin", None, None, 200)
    /\ UNCHANGED <<conversations, clock, ens_vars>>
    /\ UNCHANGED_chat

\* POST /create-user
create_user ==
    /\ resp = NoResp
    /\ \E token \in Tokens, username \in Usernames, usertype \in UserType :
        LET payload == verify_token(token)
            author  == FindUser(payload.sub)
            role    == IF author = 0 THEN None ELSE users[author].type
        IN  IF payload.status # 200
            THEN /\ resp' = Response("create_user", None, None, 401)
                 /\ UNCHANGED users
            ELSE IF author = 0
            THEN /\ resp' = Response("create_user", None, None, 404)
                 /\ UNCHANGED users
            ELSE IF users[author].type # "admin"
            THEN /\ resp' = Response("create_user", role, None, 403)
                 /\ UNCHANGED users
            ELSE IF FindUser(username) # 0
            THEN /\ resp' = Response("create_user", role, None, 400)
                 /\ UNCHANGED users
            ELSE /\ Len(users) < MaxUsers
                 /\ users' = Append(users, [username |-> username, type |-> usertype])
                 /\ resp' = Response("create_user", role, None, 200)
    /\ UNCHANGED <<conversations, clock, ens_vars>>
    /\ UNCHANGED_chat

\* ------------------------------------------------- conversation routes
RECURSIVE OrderByUpdatedDesc(_)
\* order_by(ChatConversation.updated_at.desc()) over the rows ids.
OrderByUpdatedDesc(ids) ==
    IF ids = {} THEN <<>>
    ELSE LET newest == CHOOSE i \in ids :
                \A j \in ids : conversations[j].updated_at <= conversations[i].updated_at
         IN  <<newest>> \o OrderByUpdatedDesc(ids \ {newest})

\* GET /conversations
list_conversations ==
    /\ resp = NoResp
    /\ \E token \in Tokens, mode \in ListModes :
        LET current == get_current_user(token)
            role    == RoleOf(current)
            allowed == allowed_conversation_modes_for(role)
            mine    == {i \in 1..Len(conversations) :
                            conversations[i].user_id = current.user_id}
            rows    == IF mode # None
                       THEN {i \in mine : conversations[i].mode = mode}
                       ELSE {i \in mine : conversations[i].mode \in allowed}
        IN  IF current.status # 200
            THEN resp' = Response("list_conversations", None, mode, 401)
            ELSE IF mode # None /\ mode \notin ConversationMode
            THEN resp' = Response("list_conversations", role, mode, 400)
            ELSE IF mode # None /\ mode \notin allowed
            THEN resp' = Response("list_conversations", role, mode, 403)
            ELSE resp' = [Response("list_conversations", role, mode, 200)
                            EXCEPT !.items = OrderByUpdatedDesc(rows)]
    /\ UNCHANGED <<users, conversations, clock, ens_vars>>
    /\ UNCHANGED_chat

\* POST /conversations
create_conversation ==
    /\ resp = NoResp
    /\ \E token \in Tokens, mode_value \in ConversationMode \cup {None},
          title \in RequestTitles :
        LET current   == get_current_user(token)
            role      == RoleOf(current)
            allowed   == allowed_conversation_modes_for(role)
            mode_enum == IF mode_value = None
                         THEN CHOOSE m \in allowed : TRUE
                         ELSE mode_value
        IN  IF current.status # 200
            THEN /\ resp' = Response("create_conversation", None, mode_value, 401)
                 /\ UNCHANGED <<conversations, clock>>
            ELSE IF mode_value # None /\ mode_enum \notin allowed
            THEN /\ resp' = Response("create_conversation", role, mode_value, 403)
                 /\ UNCHANGED <<conversations, clock>>
            ELSE /\ Len(conversations) < MaxConvs
                 /\ clock' = clock + 1
                 /\ conversations' =
                        Append(conversations,
                               [user_id |-> current.user_id, mode |-> mode_enum,
                                title |-> title, created_at |-> clock + 1,
                                updated_at |-> clock + 1])
                 /\ resp' = [Response("create_conversation", role, mode_enum, 201)
                                EXCEPT !.items = <<Len(conversations) + 1>>]
    /\ UNCHANGED <<users, ens_vars>>
    /\ UNCHANGED_chat

\* The test of the row's owner left out.
get_conversation_or_404_any_owner(conversation_id, user_id) ==
    IF conversation_id \notin 1..Len(conversations) THEN 404
    ELSE IF conversations[conversation_id].mode
                \notin allowed_conversation_modes_for(users[user_id].type) THEN 403
    ELSE 200

\* _get_conversation_or_404: 200 and the row, or the error it raises.
get_conversation_or_404(conversation_id, user_id) ==
    IF conversation_id \notin 1..Len(conversations) THEN 404
    ELSE IF conversations[conversation_id].user_id # user_id THEN 403
    ELSE IF conversations[conversation_id].mode
                \notin allowed_conversation_modes_for(users[user_id].type) THEN 403
    ELSE 200

\* ------------------------------------------------------ the history store
\* Neo4jChatMessageHistory(session_id).messages
Messages(session_id) ==
    IF session_id \in DOMAIN history THEN history[session_id] ELSE <<>>

\* The message put in front of the stored ones.
WithMessage_prepend(session_id, message) ==
    [s \in DOMAIN history \cup {session_id} |->
        IF s = session_id THEN <<message>> \o Messages(session_id) ELSE history[s]]

\* add_user_message / add_ai_message
WithMessage(session_id, message) ==
    [s \in DOMAIN history \cup {session_id} |->
        IF s = session_id THEN Append(Messages(session_id), message) ELSE history[s]]

\* The "history" of a listing: role "user" for a HumanMessage, else
\* "assistant", with the content; turn says which chat call stored the message.
HistoryItems(messages) ==
    [i \in 1..Len(messages) |->
        [role |-> IF messages[i].type = "human" THEN "user" ELSE "assistant",
         content |-> messages[i].content, turn |-> messages[i].turn]]

\* The prefix left out.
dual_session_id_unprefixed(session_id) == session_id

\* rag_chat_dual: session_id=f"dual_{session_id}"
dual_session_id(session_id) == "dual_" \o session_id

\* The routes' own f"dual_{session_key}" when they read a dual history.
dual_history_key(session_key) == "dual_" \o session_key

\* The session_id under which a call of rag_chat / rag_chat_dual keeps history.
HistoryId(t) ==
    IF turns[t].fn = "rag_chat" THEN turns[t].session_id
    ELSE dual_session_id(turns[t].session_id)

\* ------------------------------------------------------------ chat turns
\* The call rag_chat(user_input, session_id) or rag_chat_dual(...), begun by a
\* route for a caller; calls is the log of the backend calls it has made.
\* rewrite_input is what the rewriting call was given, queries the query each
\* retriever call was given.
NewTurn(route, user_id, conversation_id, sid, mode, fn, session_id, user_input) ==
    [route |-> route, user_id |-> user_id, conversation_id |-> conversation_id,
     sid |-> sid, mode |-> mode, fn |-> fn, session_id |-> session_id,
     user_input |-> user_input, pc |-> "rewriting", standalone_query |-> None,
     public_docs |-> <<>>, secure_docs |-> <<>>, context |-> <<>>,
     answer |-> None, calls |-> <<>>, degraded |-> {},
     survivors |-> [public |-> <<>>, secure |-> <<>>],
     rewrite_input |-> None, queries |-> <<>>, context_text |-> ""]

\* The public and the dual branch taken the wrong way round.
ChatFunction_swapped(mode) == IF mode = "public" THEN "rag_chat_dual" ELSE "rag_chat"

\* conversation_send: rag_chat for a public conversation, else rag_chat_dual.
ChatFunction(mode) == IF mode = "public" THEN "rag_chat" ELSE "rag_chat_dual"

\* POST /conversations/{conversation_id}/send, up to the call of the chat function.
conversation_send ==
    /\ resp = NoResp
    /\ \E token \in Tokens, conversation_id \in 1..(Len(conversations) + 1), user_input \in UserInputs :
        LET current == get_current_user(token)
            role    == RoleOf(current)
            found   == get_conversation_or_404(conversation_id, current.user_id)
            mode    == IF conversation_id \in 1..Len(conversations)
                       THEN conversations[conversation_id].mode ELSE None
        IN  IF current.status # 200
            THEN /\ resp' = Response("conversation_send", None, mode, 401)
                 /\ UNCHANGED <<turns, budget>>
            ELSE IF found # 200
            THEN /\ resp' = [Response("conversation_send", role, mode, found)
                                EXCEPT !.user_id = current.user_id,
                                       !.conversation_id = conversation_id]
                 /\ UNCHANGED <<turns, budget>>
            ELSE /\ budget > 0
                 /\ budget' = budget - 1
                 /\ turns' = Append(turns,
                        NewTurn("conversation_send", current.user_id, conversation_id,
                                None, mode, ChatFunction(mode),
                                neo_session_key(current.user_id, conversation_id),
                                user_input))
                 /\ UNCHANGED resp
    /\ UNCHANGED <<users, conversations, clock, history, kind, ens_vars>>

\* GET /conversations/{conversation_id}/history
conversation_history ==
    /\ resp = NoResp
    /\ \E token \in Tokens, conversation_id \in 1..(Len(conversations) + 1), store_ok \in BOOLEAN :
        LET current == get_current_user(token)
            role    == RoleOf(current)
            found   == get_conversation_or_404(conversation_id, current.user_id)
            mode    == IF conversation_id \in 1..Len(conversations)
                       THEN conversations[conversation_id].mode ELSE None
            session_key == neo_session_key(current.user_id, conversation_id)
            neo_session_id == IF mode = "dual" THEN dual_history_key(session_key)
                              ELSE session_key
        IN  IF current.status # 200
            THEN resp' = Response("conversation_history", None, mode, 401)
            ELSE IF found # 200
            THEN resp' = [Response("conversation_history", role, mode, found)
                            EXCEPT !.user_id = current.user_id,
                                   !.conversation_id = conversation_id]
            ELSE IF ~store_ok
            THEN resp' = [Response("conversation_history", role, mode, 500)
                            EXCEPT !.store_reads = 1,
                                   !.user_id = current.user_id,
                                   !.conversation_id = conversation_id]
            ELSE resp' = [Response("conversation_history", role, mode, 200)
                            EXCEPT !.history = HistoryItems(Messages(neo_session_id)),
                                   !.store_reads = 1,
                                   !.user_id = current.user_id,
                                   !.conversation_id = conversation_id]
    /\ UNCHANGED <<users, conversations, clock, history, turns, kind, budget, ens_vars>>

\* The session id without the caller in it.
legacy_session_id_unscoped(prefix, user_id, sid) == prefix \o sid

\* f"legacy_public:{_neo_session_key(current_user, 0)}:{request.session_id}"
\* and the same with legacy_dual:
legacy_session_id(prefix, user_id, sid) ==
    prefix \o neo_session_key(user_id, 0) \o ":" \o sid

\* POST /chat (public) and POST /chat-dual, up to the call of the chat function.
LegacyChat(route, allowed_roles, prefix, mode, fn) ==
    /\ resp = NoResp
    /\ \E token \in Tokens, sid \in SessionIds, user_input \in UserInputs :
        LET current == require_roles(allowed_roles, token)
            role    == RoleOf(current)
        IN  IF current.status # 200
            THEN /\ resp' = Response(route, role, mode, current.status)
                 /\ UNCHANGED <<turns, budget>>
            ELSE /\ budget > 0
                 /\ budget' = budget - 1
                 /\ turns' = Append(turns,
                        NewTurn(route, current.user_id, 0, sid, mode, fn,
                                legacy_session_id(prefix, current.user_id, sid),
                                user_input))
                 /\ UNCHANGED resp
    /\ UNCHANGED <<users, conversations, clock, history, kind, ens_vars>>

chat == LegacyChat("chat", {"ruser"}, "legacy_public:", "public", "rag_chat")

chat_dual ==
    LegacyChat("chat_dual", {"admin", "user"}, "legacy_dual:", "dual", "rag_chat_dual")

\* GET /chat/history/{session_id} and GET /chat-dual/history/{session_id}
LegacyHistory(route, allowed_roles, prefix, mode) ==
    /\ resp = NoResp
    /\ \E token \in Tokens, sid \in SessionIds, store_ok \in BOOLEAN :
        LET current == require_roles(allowed_roles, token)
            role    == RoleOf(current)
            safe_session_id == legacy_session_id(prefix, current.user_id, sid)
            neo_session_id  == IF mode = "dual" THEN dual_history_key(safe_session_id)
                               ELSE safe_session_id
        IN  IF current.status # 200
            THEN resp' = Response(route, role, mode, current.status)
            ELSE IF ~store_ok
            THEN resp' = [Response(route, role, mode, 500) EXCEPT !.store_reads = 1]
            ELSE resp' = [Response(route, role, mode, 200)
                            EXCEPT !.history = HistoryItems(Messages(neo_session_id)),
                                   !.store_reads = 1]
    /\ UNCHANGED <<users, conversations, clock, history, turns, kind, budget, ens_vars>>

get_chat_history == LegacyHistory("get_chat_history", {"ruser"}, "legacy_public:", "public")

get_chat_dual_history ==
    LegacyHistory("get_chat_dual_history", {"admin", "user"}, "legacy_dual:", "dual")

\* ------------------------------------------------------------ retrieval
\* EnsembleRetriever(retrievers=[chroma_retriever, bm25_retriever],
\* weights=[0.5, 0.5]).invoke(query), for backends that behave as b1 and b2.
\* degraded: exactly one backend raised and the other returned a non-empty list.
EnsembleOutcome(b1, b2) ==
    LET r == get_relevant_documents(<<b1, b2>>, <<1, 1>>)
        survivor == IF b1.raises THEN b2.docs ELSE b1.docs
        degraded == (b1.raises # b2.raises) /\ survivor # <<>>
    IN  [raised |-> r.raised, docs |-> r.docs, degraded |-> degraded,
         survivor |-> IF degraded THEN survivor ELSE <<>>]

\* retriever.invoke(query) for the retriever _initialize_components built over
\* the stored chunks: the ensemble, or the vector retriever alone (the fallback),
\* whose exception nothing catches.
RetrieverOutcomes(built, stored) ==
    IF built = "ensemble"
    THEN {EnsembleOutcome(b1, b2) :
            b1 \in BackendBehaviours(stored), b2 \in BackendBehaviours(stored)}
    ELSE {[raised |-> b.raises, docs |-> b.docs, degraded |-> FALSE,
           survivor |-> <<>>] : b \in BackendBehaviours(stored)}

PublicRetriever(t) ==
    IF turns[t].fn = "rag_chat" THEN kind.rag_chat ELSE kind.dual_public

\* ------------------------------------------------- steps of a chat turn
\* The call is over: its locals are discarded. What it did goes into the
\* record of the response.
Over(tr, pc) ==
    [tr EXCEPT !.pc = pc, !.calls = <<>>, !.degraded = {},
               !.standalone_query = None, !.public_docs = <<>>,
               !.secure_docs = <<>>, !.context = <<>>, !.answer = None,
               !.survivors = [public |-> <<>>, secure |-> <<>>],
               !.rewrite_input = None, !.queries = <<>>, !.context_text = ""]

\* The exception swallowed: the turn goes on to store its messages.
Fails_goes_on(t, stage, log, degraded) ==
    /\ turns' = [turns EXCEPT ![t] = [@ EXCEPT !.pc = "persist_user", !.calls = log]]
    /\ resp' = [Response(turns[t].route, users[turns[t].user_id].type,
                         turns[t].mode, 500)
                    EXCEPT !.turn = t, !.calls = log, !.degraded = degraded,
                           !.failed_at = stage]

\* except Exception: print, raise. The route answers 500.
Fails(t, stage, log, degraded) ==
    /\ turns' = [turns EXCEPT ![t] = Over(@, "failed")]
    /\ resp' = [Response(turns[t].route, users[turns[t].user_id].type,
                         turns[t].mode, 500)
                    EXCEPT !.turn = t, !.calls = log, !.degraded = degraded,
                           !.failed_at = stage]

Continues(t, tr) ==
    /\ turns' = [turns EXCEPT ![t] = tr]
    /\ UNCHANGED resp

\* The graceful fallback: the turn goes on with the user input as its query.
RewriteFailed_falls_back(t, tr, log) ==
    Continues(t, [tr EXCEPT !.pc = "retrieving",
                            !.standalone_query = tr.user_input, !.calls = log])

\* standalone_query_chain.invoke raises inside the try: print, raise.
RewriteFailed(t, tr, log) == Fails(t, "rewrite", log, tr.degraded)

\* The rewriting call made whether or not there is history.
NeedsRewrite_always(messages) == TRUE

\* if history.messages:
NeedsRewrite(messages) == messages # <<>>

\* standalone_query_chain.invoke({"input": user_input, "chat_history": ...})
RewriteInput(user_input, messages) ==
    [input |-> user_input, chat_history |-> HistoryItems(messages)]

\* history.messages, then the standalone query: rephrased by the LLM when there
\* is history, the user input as it is when there is none.
Rewrite(t) ==
    /\ resp = NoResp
    /\ turns[t].pc = "rewriting"
    /\ \E store_ok \in BOOLEAN, llm_ok \in BOOLEAN :
        LET tr  == turns[t]
            log == Append(tr.calls, "history.messages")
        IN  IF ~store_ok THEN Fails(t, "history", log, tr.degraded)
            ELSE IF NeedsRewrite(Messages(HistoryId(t)))
            THEN IF llm_ok
                 THEN Continues(t, [tr EXCEPT !.pc = "retrieving",
                                    !.standalone_query = "standalone question",
                                    !.rewrite_input =
                                        RewriteInput(tr.user_input,
                                                     Messages(HistoryId(t))),
                                    !.calls = Append(log, "llm.rewrite")])
                 ELSE RewriteFailed(t, tr, Append(log, "llm.rewrite"))
            ELSE Continues(t, [tr EXCEPT !.pc = "retrieving",
                                         !.standalone_query = tr.user_input,
                                         !.calls = log])
    /\ UNCHANGED <<users, conversations, clock, history, kind, budget, ens_vars>>

\* docs = _retriever.invoke(standalone_query) /
\* public_docs = _retriever_public.invoke(standalone_query)
Retrieve(t) ==
    /\ resp = NoResp
    /\ turns[t].pc = "retrieving"
    /\ \E o \in RetrieverOutcomes(PublicRetriever(t), PublicDocuments) :
        LET tr  == turns[t]
            log == Append(tr.calls, "retriever.public")
            deg == IF o.degraded THEN tr.degraded \cup {"public"} ELSE tr.degraded
        IN  IF o.raised THEN Fails(t, "retrieval", log, deg)
            ELSE Continues(t, [tr EXCEPT
                    !.pc = IF tr.fn = "rag_chat" THEN "generating"
                           ELSE "retrieving_secure",
                    !.public_docs = o.docs, !.calls = log, !.degraded = deg,
                    !.survivors.public = o.survivor,
                    !.queries = Append(@, [to |-> "public",
                                           query |-> tr.standalone_query])])
    /\ UNCHANGED <<users, conversations, clock, history, kind, budget, ens_vars>>

\* secure_docs = _retriever_secure.invoke(standalone_query)
RetrieveSecure(t) ==
    /\ resp = NoResp
    /\ turns[t].pc = "retrieving_secure"
    /\ \E o \in RetrieverOutcomes(kind.dual_secure, SecureDocuments) :
        LET tr  == turns[t]
            log == Append(tr.calls, "retriever.secure")
            deg == IF o.degraded THEN tr.degraded \cup {"secure"} ELSE tr.degraded
        IN  IF o.raised THEN Fails(t, "retrieval", log, deg)
            ELSE Continues(t, [tr EXCEPT
                    !.pc = "generating", !.secure_docs = o.docs, !.calls = log,
                    !.degraded = deg, !.survivors.secure = o.survivor,
                    !.queries = Append(@, [to |-> "secure",
                                           query |-> tr.standalone_query])])
    /\ UNCHANGED <<users, conversations, clock, history, kind, budget, ens_vars>>

\* all_docs = public_docs + secure_docs (in rag_chat: docs, the one list).
AllDocs(public_docs, secure_docs) == public_docs \o secure_docs

\* The chain's retrievers given the raw user input.
ChainQuery_input(x) == x.user_input

\* lambda x: x["standalone_query"]
ChainQuery(x) == x.standalone_query

\* The queries the chain gives its retrievers, after those of the turn so far.
ChainQueries(tr) ==
    tr.queries \o <<[to |-> "public", query |-> ChainQuery(tr)]>>
        \o (IF tr.fn = "rag_chat" THEN <<>>
            ELSE <<[to |-> "secure", query |-> ChainQuery(tr)]>>)

\* f"Source: {source} | Page: {page}\nContent: {page_content}"
ContextEntry(d) ==
    "Source: " \o d.metadata.source \o " | Page: " \o ToString(d.metadata.page)
        \o "\nContent: " \o d.page_content

RECURSIVE ContextString(_)
\* "\n\n".join(... for d in docs): the text that fills {context} in the prompt.
ContextString(docs) ==
    IF docs = <<>> THEN ""
    ELSE IF Len(docs) = 1 THEN ContextEntry(docs[1])
    ELSE ContextEntry(Head(docs)) \o "\n\n" \o ContextString(Tail(docs))

\* The dual chain retrieves from no second collection in rag_chat.
NoSecureCall == [raised |-> FALSE, docs |-> <<>>, degraded |-> FALSE, survivor |-> <<>>]

\* rag_chain.invoke({input, standalone_query, chat_history: history.messages}):
\* the chain retrieves its context itself (a second query of the retrievers),
\* then calls the LLM.
Generate(t) ==
    /\ resp = NoResp
    /\ turns[t].pc = "generating"
    /\ \E store_ok \in BOOLEAN, llm_ok \in BOOLEAN,
          op \in RetrieverOutcomes(PublicRetriever(t), PublicDocuments),
          os \in IF turns[t].fn = "rag_chat" THEN {NoSecureCall}
                 ELSE RetrieverOutcomes(kind.dual_secure, SecureDocuments) :
        LET tr   == turns[t]
            log1 == Append(tr.calls, "history.messages")
            log2 == Append(log1, "retriever.public")
            log3 == IF tr.fn = "rag_chat" THEN log2 ELSE Append(log2, "retriever.secure")
            log4 == Append(log3, "llm.answer")
        IN  IF ~store_ok THEN Fails(t, "history", log1, tr.degraded)
            ELSE IF op.raised THEN Fails(t, "context", log2, tr.degraded)
            ELSE IF os.raised THEN Fails(t, "context", log3, tr.degraded)
            ELSE IF ~llm_ok THEN Fails(t, "generation", log4, tr.degraded)
            ELSE Continues(t, [tr EXCEPT !.pc = "persist_user",
                                         !.context = AllDocs(op.docs, os.docs),
                                         !.context_text =
                                            ContextString(AllDocs(op.docs, os.docs)),
                                         !.answer = "answer", !.calls = log4,
                                         !.queries = ChainQueries(tr)])
    /\ UNCHANGED <<users, conversations, clock, history, kind, budget, ens_vars>>

\* history.add_user_message(user_input)
AddUserMessage(t) ==
    /\ resp = NoResp
    /\ turns[t].pc = "persist_user"
    /\ \E store_ok \in BOOLEAN :
        LET tr  == turns[t]
            log == Append(tr.calls, "history.add_user_message")
        IN  IF ~store_ok
            THEN Fails(t, "add_user_message", log, tr.degraded) /\ UNCHANGED history
            ELSE /\ history' = WithMessage(HistoryId(t),
                        [type |-> "human", content |-> tr.user_input, turn |-> t])
                 /\ Continues(t, [tr EXCEPT !.pc = "persist_ai", !.calls = log])
    /\ UNCHANGED <<users, conversations, clock, kind, budget, ens_vars>>

\* f"- {source} (Page: {page})"
Source(d) ==
    "- " \o d.metadata.source \o " (Page: " \o ToString(d.metadata.page) \o ")"

\* (user_input or "").strip()[:60] or None; the inputs of the model carry no
\* outer blanks and are shorter than 60 characters.
TitleFrom(user_input) == IF user_input \in {None, ""} THEN None ELSE user_input

\* The row written back with the mode of the request's default.
Touched_resets_mode(row, now, user_input) ==
    [row EXCEPT !.updated_at = now, !.mode = "public",
                !.title = IF @ \in {None, ""} THEN TitleFrom(user_input) ELSE @]

\* conv.updated_at = datetime.now(); if not conv.title: conv.title = ...
Touched(row, now, user_input) ==
    [row EXCEPT !.updated_at = now,
                !.title = IF @ \in {None, ""} THEN TitleFrom(user_input) ELSE @]

\* history.add_ai_message(response.content), the sources, the return; then, in
\* conversation_send, updated_at, the title, the commit and the response.
AddAiMessage(t) ==
    /\ resp = NoResp
    /\ turns[t].pc = "persist_ai"
    /\ \E store_ok \in BOOLEAN :
        LET tr   == turns[t]
            log  == Append(tr.calls, "history.add_ai_message")
            docs == AllDocs(tr.public_docs, tr.secure_docs)
            sources == {Source(d) : d \in Range(docs)}
            cid  == tr.conversation_id
        IN  IF ~store_ok
            THEN /\ Fails(t, "add_ai_message", log, tr.degraded)
                 /\ UNCHANGED <<history, conversations, clock>>
            ELSE /\ history' = WithMessage(HistoryId(t),
                        [type |-> "ai", content |-> tr.answer, turn |-> t])
                 /\ turns' = [turns EXCEPT ![t] = Over(@, "done")]
                 /\ resp' = [Response(tr.route, users[tr.user_id].type, tr.mode, 200)
                                EXCEPT !.answer = tr.answer, !.sources = sources,
                                       !.docs = docs, !.context = tr.context,
                                       !.context_text = tr.context_text,
                                       !.turn = t, !.calls = log,
                                       !.degraded = tr.degraded]
                 /\ IF tr.route = "conversation_send"
                    THEN /\ clock' = clock + 1
                         /\ conversations' = [conversations EXCEPT
                                ![cid] = Touched(@, clock + 1, tr.user_input)]
                    ELSE UNCHANGED <<conversations, clock>>
    /\ UNCHANGED <<users, kind, budget, ens_vars>>

\* The response has gone to the client.
Deliver ==
    /\ resp # NoResp
    /\ resp' = NoResp
    /\ UNCHANGED <<users, conversations, clock, history, turns, kind, budget, ens_vars>>

\* ------------------------------------------------------------------ Spec
\* Empty tables and an empty message store; each module has built its
\* retrievers: the ensemble, or the vector retriever alone.
Init ==
    /\ InitFusion
    /\ users = <<>>
    /\ conversations = <<>>
    /\ clock = 0
    /\ history = <<>>
    /\ turns = <<>>
    /\ kind \in [{"rag_chat", "dual_public", "dual_secure"} -> {"ensemble", "vector"}]
    /\ resp = NoResp
    /\ budget = MaxTurns

Next ==
    \/ create_admin
    \/ create_user
    \/ list_conversations
    \/ create_conversation
    \/ conversation_history
    \/ conversation_send
    \/ chat
    \/ get_chat_history
    \/ chat_dual
    \/ get_chat_dual_history
    \/ \E t \in 1..Len(turns) : Rewrite(t)
    \/ \E t \in 1..Len(turns) : Retrieve(t)
    \/ \E t \in 1..Len(turns) : RetrieveSecure(t)
    \/ \E t \in 1..Len(turns) : Generate(t)
    \/ \E t \in 1..Len(turns) : AddUserMessage(t)
    \/ \E t \in 1..Len(turns) : AddAiMessage(t)
    \/ Deliver

Spec == Init /\ [][Next]_vars

\* ---------------------------------------------------------------- SpecChat
\* The conversation routes over a database that holds an admin with a dual
\* conversation and an ruser with a public one, every module having built its
\* ensembles, with room for chat calls that follow one another or overlap.
InitChat ==
    /\ InitFusion
    /\ users = <<[username |-> "name1", type |-> "admin"],
                 [username |-> "name2", type |-> "ruser"]>>
    /\ conversations =
            <<[user_id |-> 1, mode |-> "dual", title |-> None,
               created_at |-> 1, updated_at |-> 1],
              [user_id |-> 2, mode |-> "public", title |-> None,
               created_at |-> 2, updated_at |-> 2]>>
    /\ clock = 2
    /\ history = <<>>
    /\ turns = <<>>
    /\ kind = [rag_chat |-> "ensemble", dual_public |-> "ensemble",
               dual_secure |-> "ensemble"]
    /\ resp = NoResp
    /\ budget = MaxChatTurns

ChatNext ==
    \/ conversation_history
    \/ conversation_send
    \/ \E t \in 1..Len(turns) : Rewrite(t)
    \/ \E t \in 1..Len(turns) : Retrieve(t)
    \/ \E t \in 1..Len(turns) : RetrieveSecure(t)
    \/ \E t \in 1..Len(turns) : Generate(t)
    \/ \E t \in 1..Len(turns) : AddUserMessage(t)
    \/ \E t \in 1..Len(turns) : AddAiMessage(t)
    \/ Deliver

SpecChat == InitChat /\ [][ChatNext]_vars


\* ------------------------------------------------- claims on the fusion
Perms(n) == {p \in [1..n -> 1..n] : \A i, j \in 1..n : i # j => p[i] # p[j]}

ContentsOf(docs) == [i \in 1..Len(docs) |-> docs[i].page_content]

PositionOf(docs, content) == CHOOSE i \in 1..Len(docs) : docs[i].page_content = content

EffectiveWeights == [i \in 1..Len(retrievers) |-> WeightAt(weights, i).value]

\* The same call with the (retriever, weight) pairs supplied in the order p.
Permuted(p) ==
    get_relevant_documents([i \in 1..Len(retrievers) |-> retrievers[p[i]]],
                           [i \in 1..Len(retrievers) |-> EffectiveWeights[p[i]]])

\* C1 as stated: whatever order the (ranked list, weight) pairs are supplied
\* in, the chunks come back in the same order, ties included.
C1_SameOrderUnderPermutation ==
    ens_pc = "returned" =>
        \A p \in Perms(Len(retrievers)) :
            ContentsOf(Permuted(p).docs) = ContentsOf(sorted_docs)

\* C1 amended: supplying the (ranked list, weight) pairs in another order
\* changes neither the set of chunk contents returned, nor any fused score,
\* nor the relative order of two chunks whose fused scores differ.
C1_PermutationKeepsScoresAndStrictOrder ==
    ens_pc = "returned" =>
        \A p \in Perms(Len(retrievers)) :
            LET other == Permuted(p)
            IN  /\ ~other.raised
                /\ Len(other.docs) = Len(sorted_docs)
                /\ Range(ContentsOf(other.docs)) = Range(ContentsOf(sorted_docs))
                /\ other.rrf_score = rrf_score
                /\ \A a, b \in Range(ContentsOf(sorted_docs)) :
                        rrf_score[a] > rrf_score[b] =>
                            PositionOf(other.docs, a) < PositionOf(other.docs, b)

\* Two different non-empty lists were fused, with a tie and with a strict
\* difference among the fused scores.
C1_Witness ==
    /\ ens_pc = "returned"
    /\ Len(retrievers) = 2
    /\ all_results[1] # <<>> /\ all_results[2] # <<>>
    /\ all_results[1] # all_results[2]
    /\ \E a, b \in DOMAIN rrf_score : a # b /\ rrf_score[a] = rrf_score[b]
    /\ \E a, b \in DOMAIN rrf_score : rrf_score[a] > rrf_score[b]

\* The lists in which a content occurs, and the ranks (from 0) it has there.
ListsHolding(key) ==
    {i \in 1..Len(all_results) :
        \E r \in 1..Len(all_results[i]) : all_results[i][r].page_content = key}

RanksIn(i, key) ==
    {r \in 0..(Len(all_results[i]) - 1) : all_results[i][r + 1].page_content = key}

FirstRankIn(i, key) == CHOOSE r \in RanksIn(i, key) : \A q \in RanksIn(i, key) : r <= q

Occurrences(key) ==
    {p \in (1..Len(all_results)) \X (0..MaxLen) :
        p[2] < Len(all_results[p[1]]) /\ all_results[p[1]][p[2] + 1].page_content = key}

\* C2 as stated: a chunk's fused score is one term weight / (rank + 60) for
\* each input list that holds its content, rank counted from 0.
C2_OneTermPerList ==
    ens_pc = "returned" =>
        \A key \in DOMAIN rrf_score :
            rrf_score[key] =
                SumOver(ListsHolding(key),
                        [i \in ListsHolding(key) |->
                            EffectiveWeights[i] * (ScoreDen \div (FirstRankIn(i, key) + 60))])

\* C2 amended: a chunk's fused score is one term weight / (rank + 60) for each
\* occurrence of its content, over every input list and every rank (from 0) at
\* which the content occurs there; a list holding the content once gives one
\* term, and the terms of different lists add up.
C2_OneTermPerOccurrence ==
    ens_pc = "returned" =>
        \A key \in DOMAIN rrf_score :
            rrf_score[key] =
                SumOver(Occurrences(key),
                        [p \in Occurrences(key) |->
                            EffectiveWeights[p[1]] * (ScoreDen \div (p[2] + 60))])

\* One content is held by both lists, another by one list only, and one list
\* holds a content at two ranks.
C2_Witness ==
    /\ ens_pc = "returned"
    /\ Len(retrievers) = 2
    /\ \E key \in DOMAIN rrf_score : ListsHolding(key) = {1, 2}
    /\ \E key \in DOMAIN rrf_score : Cardinality(ListsHolding(key)) = 1
    /\ \E key \in DOMAIN rrf_score :
            \E i \in ListsHolding(key) : Cardinality(RanksIn(i, key)) = 2

\* C3: the output holds every distinct content of the input lists exactly
\* once and nothing else, and no chunk with a strictly lower fused score
\* comes before one with a strictly higher fused score.
C3_DistinctAndDescending ==
    ens_pc = "returned" =>
        /\ Range(ContentsOf(sorted_docs)) =
                {d.page_content : d \in Range(Flatten(all_results))}
        /\ Range(sorted_docs) \subseteq Range(Flatten(all_results))
        /\ \A i, j \in 1..Len(sorted_docs) :
                i # j => sorted_docs[i].page_content # sorted_docs[j].page_content
        /\ \A i, j \in 1..Len(sorted_docs) :
                i < j => ~(rrf_score[sorted_docs[i].page_content]
                            < rrf_score[sorted_docs[j].page_content])

\* A content held by both lists was returned once, among three chunks whose
\* scores are not all equal.
C3_Witness ==
    /\ ens_pc = "returned"
    /\ \E key \in DOMAIN rrf_score : ListsHolding(key) = {1, 2}
    /\ Len(Flatten(all_results)) > Len(sorted_docs)
    /\ Len(sorted_docs) = 3
    /\ rrf_score[sorted_docs[1].page_content] > rrf_score[sorted_docs[3].page_content]

\* The worked example: A = [doc1, doc2, doc3] and B = [doc3, doc1], 0.5 each.
WorkedExample ==
    /\ ens_pc = "returned"
    /\ Len(retrievers) = 2
    /\ ContentsOf(all_results[1]) = <<"doc1", "doc2", "doc3">>
    /\ ContentsOf(all_results[2]) = <<"doc3", "doc1">>
    /\ EffectiveWeights = <<1, 1>>

\* C4: in the worked example doc1 scores 0.5/60 + 0.5/61, doc3 scores
\* 0.5/62 + 0.5/60, doc2 scores 0.5/61, and the output is [doc1, doc3, doc2].
\* (A score s stands for s / (2 * ScoreDen).)
C4_WorkedExample ==
    WorkedExample =>
        /\ rrf_score["doc1"] * (60 * 61) = ScoreDen * (61 + 60)
        /\ rrf_score["doc3"] * (62 * 60) = ScoreDen * (60 + 62)
        /\ rrf_score["doc2"] * 61 = ScoreDen
        /\ ContentsOf(sorted_docs) = <<"doc1", "doc3", "doc2">>

C4_Witness == WorkedExample /\ Len(sorted_docs) = 3

\* The input of the call is empty: no retriever, or only empty lists returned.
EmptyInput ==
    /\ ens_pc # "idle"
    /\ \A i \in 1..Len(retrievers) : ~retrievers[i].raises /\ retrievers[i].docs = <<>>

\* C5: fusion over zero retrievers, or over retrievers that all return empty
\* lists, returns the empty list and does not raise.
C5_EmptyInputEmptyOutput ==
    EmptyInput => ens_pc = "returned" /\ sorted_docs = <<>>

\* Two retrievers both returned the empty list, to an ensemble that has a
\* weight for the first of them only.
C5_Witness == EmptyInput /\ Len(retrievers) = 2 /\ Len(weights) = 1

\* ---------------------------------------------------------------------
\* Access control and the two partitions, in Spec (C8: in SpecChat).

\* The request was turned away by the route itself: an error status, and up to
\* that point no chat call begun, no read of the history store, and no call of
\* a retriever or of the LLM.
Rejected(r) ==
    /\ r.status \in {400, 401, 403, 404}
    /\ r.turn = 0
    /\ r.store_reads = 0
    /\ r.calls = <<>>
    /\ r.history = <<>>
    /\ r.answer = None

\* C6: a request of an ruser that targets the dual mode (a dual conversation or
\* a legacy dual endpoint) is rejected with 403 before any retriever, LLM or
\* history-store call is made, and no call of rag_chat_dual is ever begun for
\* an ruser.
C6_RestrictedUserNeverReachesDual ==
    /\ (resp.role = "ruser" /\ resp.target_mode = "dual")
            => (Rejected(resp) /\ resp.status = 403)
    /\ \A t \in 1..Len(turns) :
            users[turns[t].user_id].type = "ruser"
                => (turns[t].mode # "dual" /\ turns[t].fn # "rag_chat_dual")

\* An ruser asked to send into a dual conversation and got 403.
C6_Witness ==
    /\ resp.route = "conversation_send"
    /\ resp.role = "ruser"
    /\ resp.target_mode = "dual"
    /\ resp.status = 403

\* The mapping the claim C7 gives.
PermittedModes == [ruser |-> {"public"}, user |-> {"dual"}, admin |-> {"dual"}]

\* C7: the modes a role may use are ruser: {public}, user: {dual}, admin:
\* {dual}; every create, list, send or history request whose mode is outside the
\* caller's set is rejected, and no conversation and no chat call exists whose
\* mode is outside its owner's set.
C7_ClosedRoleModeMapping ==
    /\ \A i \in 1..Len(users) :
            allowed_conversation_modes_for(users[i].type) = PermittedModes[users[i].type]
    /\ (/\ resp.role \in UserType
        /\ resp.target_mode # None
        /\ resp.target_mode \notin PermittedModes[resp.role]) => Rejected(resp)
    /\ \A c \in 1..Len(conversations) :
            conversations[c].mode \in PermittedModes[users[conversations[c].user_id].type]
    /\ \A t \in 1..Len(turns) :
            turns[t].mode \in PermittedModes[users[turns[t].user_id].type]

\* An admin asked for a public conversation and got 403.
C7_Witness ==
    /\ resp.route = "create_conversation"
    /\ resp.role = "admin"
    /\ resp.target_mode = "public"
    /\ resp.status = 403

\* The key under which a chat call of the given mode keeps the history of a
\* conversation of a user, and the key the history route reads for that mode.
WriteKey(mode, user_id, conversation_id) ==
    IF mode = "public" THEN neo_session_key(user_id, conversation_id)
    ELSE dual_session_id(neo_session_key(user_id, conversation_id))

ReadKey(mode, user_id, conversation_id) ==
    IF mode = "public" THEN neo_session_key(user_id, conversation_id)
    ELSE dual_history_key(neo_session_key(user_id, conversation_id))

OtherMode(mode) == IF mode = "public" THEN "dual" ELSE "public"

\* C8: after any sequence of turns, every stored message sits under the key of
\* the mode that appended it, and that key is neither the key the other mode
\* writes nor the key the other mode's history listing reads for the same user
\* and conversation; a history listing of one mode returns only messages that
\* were appended in that mode.
C8_PartitionIsolation ==
    /\ \A key \in DOMAIN history : \A i \in 1..Len(history[key]) :
        LET t == turns[history[key][i].turn]
        IN  /\ key = WriteKey(t.mode, t.user_id, t.conversation_id)
            /\ key # WriteKey(OtherMode(t.mode), t.user_id, t.conversation_id)
            /\ key # ReadKey(OtherMode(t.mode), t.user_id, t.conversation_id)
    /\ \A i \in 1..Len(resp.history) :
            turns[resp.history[i].turn].mode = resp.target_mode

\* The history of the dual conversation is listed, with the two messages of a
\* turn, when a turn in the public conversation has stored its messages too.
C8_Witness ==
    /\ resp.route = "conversation_history"
    /\ resp.target_mode = "dual"
    /\ resp.status = 200
    /\ Len(resp.history) = 2
    /\ \E t \in 1..Len(turns) :
            turns[t].mode = "public" /\ Len(Messages(HistoryId(t))) = 2

\* The documents a chat call holds from a partition.
DocsOf(tr, partition) ==
    IF partition = "public" THEN tr.public_docs ELSE tr.secure_docs

\* The partition a retriever call of the log queried.
PartitionOf(call) == IF call = "retriever.public" THEN "public" ELSE "secure"

\* C9: when one backend of an ensemble raised and the other returned a
\* non-empty list, the retrieval returns that list, non-empty, and does not
\* fail the turn: a call that ends Failed at a retrieval did not degrade in the
\* partition it was querying, and a degraded call that answers has ended Done.
C9_DegradedRetrievalCompletes ==
    /\ \A t \in 1..Len(turns) : \A p \in turns[t].degraded :
            /\ DocsOf(turns[t], p) # <<>>
            /\ DocsOf(turns[t], p) = turns[t].survivors[p]
    /\ (resp.status = 500 /\ resp.failed_at \in {"retrieval", "context"})
            => PartitionOf(resp.calls[Len(resp.calls)]) \notin resp.degraded
    /\ (resp.status = 200 /\ resp.degraded # {})
            => (turns[resp.turn].pc = "done" /\ resp.docs # <<>>)

\* A public turn whose ensemble lost one backend has answered.
C9_Witness ==
    /\ resp.status = 200
    /\ resp.target_mode = "public"
    /\ resp.degraded = {"public"}
    /\ turns[resp.turn].pc = "done"

\* The calls a chat call in flight has made, and those of the call a response
\* reports.
Queried(log, partition) ==
    \E i \in 1..Len(log) : log[i] \in {"retriever.public", "retriever.secure"}
                             /\ PartitionOf(log[i]) = partition

\* C10: a public turn queries the public retrievers only and holds public
\* chunks only; a dual turn that got as far as its answer has queried both the
\* public and the secure retrievers.
C10_ModeSelectsPartitions ==
    /\ \A t \in 1..Len(turns) :
        /\ turns[t].mode = "public" =>
                /\ ~Queried(turns[t].calls, "secure")
                /\ Range(turns[t].public_docs) \subseteq PublicDocuments
                /\ turns[t].secure_docs = <<>>
        /\ (turns[t].mode = "dual"
                /\ turns[t].pc \in {"generating", "persist_user", "persist_ai"}) =>
                /\ Queried(turns[t].calls, "public")
                /\ Queried(turns[t].calls, "secure")
                /\ Range(turns[t].public_docs) \subseteq PublicDocuments
                /\ Range(turns[t].secure_docs) \subseteq SecureDocuments
    /\ (resp.turn # 0 /\ resp.target_mode = "public") =>
            /\ ~Queried(resp.calls, "secure")
            /\ Range(resp.docs) \subseteq PublicDocuments
    /\ (resp.turn # 0 /\ resp.target_mode = "dual" /\ resp.status = 200) =>
            /\ Queried(resp.calls, "public")
            /\ Queried(resp.calls, "secure")

\* A dual conversation answered from chunks of both partitions.
C10_Witness ==
    /\ resp.route = "conversation_send"
    /\ resp.target_mode = "dual"
    /\ resp.status = 200
    /\ Len(resp.docs) = 2

\* ---------------------------------------------------------------------
\* The chunks of a turn: context and sources.

\* The fusion of the two partitions' lists, each with weight 1.0.
CrossPartitionFusion(public_docs, secure_docs) ==
    get_relevant_documents(<<Returns(public_docs), Returns(secure_docs)>>, <<2, 2>>).docs

\* C11: the chunk list a dual turn answers with is the fusion, with weight 1.0
\* per partition, of its public list and its secure list, and a content appears
\* once in its sources list and once in its context.
C11_DualListIsCrossPartitionFusion ==
    /\ [][\A t \in 1..Len(turns) :
            (/\ turns[t].fn = "rag_chat_dual"
             /\ turns[t].pc = "persist_ai"
             /\ turns'[t].pc = "done")
            => resp'.docs = CrossPartitionFusion(turns[t].public_docs,
                                                 turns[t].secure_docs)]_vars
    /\ [](resp.target_mode = "dual" =>
            /\ \A i, j \in 1..Len(resp.docs) :
                    resp.docs[i].page_content = resp.docs[j].page_content => i = j
            /\ \A i, j \in 1..Len(resp.context) :
                    resp.context[i].page_content = resp.context[j].page_content => i = j)

\* C12: the sources a completed turn returns are the source/page strings of
\* exactly the chunks that were given to the generation call as context.
C12_SourcesAreTheContext ==
    (resp.turn # 0 /\ resp.status = 200)
        => resp.sources = {Source(d) : d \in Range(resp.context)}

\* ---------------------------------------------------------------------
\* Persisting a turn.

\* C13: when add_user_message or add_ai_message fails, after the answer has
\* been generated, the turn still returns the answer (and its sources) to the
\* caller.
C13_PersistFailureKeepsAnswer ==
    resp.failed_at \in {"add_user_message", "add_ai_message"}
        => (resp.status = 200 /\ resp.answer # None)

\* The places (key, index) of the messages a chat call has stored.
StoredBy(t) ==
    {<<key, i>> \in UNION {{key} \X (1..Len(history[key])) : key \in DOMAIN history} :
        history[key][i].turn = t}

\* C14: a completed turn has stored exactly two messages, both under its
\* session's key: the user message with the user input as it was sent, then the
\* assistant message with the answer; and every stored assistant message has
\* the user message of its own turn somewhere before it under the same key.
C14_UserThenAssistant ==
    /\ \A key \in DOMAIN history : \A i \in 1..Len(history[key]) :
            history[key][i].type = "ai" =>
                \E j \in 1..(i - 1) :
                    history[key][j] =
                        [type |-> "human",
                         content |-> turns[history[key][i].turn].user_input,
                         turn |-> history[key][i].turn]
    /\ \A t \in 1..Len(turns) : turns[t].pc = "done" =>
            \E i, j \in 1..Len(Messages(HistoryId(t))) :
                /\ i < j
                /\ StoredBy(t) = {<<HistoryId(t), i>>, <<HistoryId(t), j>>}
                /\ Messages(HistoryId(t))[i].type = "human"
                /\ Messages(HistoryId(t))[i].content = turns[t].user_input
                /\ Messages(HistoryId(t))[j].type = "ai"
    /\ (resp.turn # 0 /\ resp.status = 200) =>
            \E j \in 1..Len(Messages(HistoryId(resp.turn))) :
                Messages(HistoryId(resp.turn))[j] =
                    [type |-> "ai", content |-> resp.answer, turn |-> resp.turn]

\* Two overlapping turns of one conversation have both completed: their user
\* messages come first, then their assistant messages.
C14_Witness ==
    \E key \in DOMAIN history :
        /\ Len(history[key]) = 4
        /\ [i \in 1..4 |-> history[key][i].type] = <<"human", "human", "ai", "ai">>
        /\ \A t \in 1..Len(turns) : turns[t].pc = "done"

\* ---------------------------------------------------------------------
\* Conversations and users.

\* C15: no step changes the mode (or the owner) of a conversation that exists,
\* or removes it, and every chat call sent to a conversation runs the chat
\* function of the conversation's mode and queries that mode's partitions.
C15_ModeFixedAtCreation ==
    /\ [][\A c \in 1..Len(conversations) :
            /\ c \in 1..Len(conversations')
            /\ conversations'[c].mode = conversations[c].mode
            /\ conversations'[c].user_id = conversations[c].user_id]_vars
    /\ [](\A t \in 1..Len(turns) : turns[t].conversation_id # 0 =>
            LET mode == conversations[turns[t].conversation_id].mode
            IN  /\ turns[t].mode = mode
                /\ turns[t].fn = IF mode = "public" THEN "rag_chat" ELSE "rag_chat_dual"
                /\ mode = "public" => ~Queried(turns[t].calls, "secure")
                /\ (mode = "dual" /\ turns[t].pc \in {"generating", "persist_user",
                                                       "persist_ai"})
                        => Queried(turns[t].calls, "secure"))

\* A turn sent to a dual conversation has completed and the conversation's row
\* has been written back.
C15_Witness ==
    \E t \in 1..Len(turns) :
        /\ turns[t].conversation_id # 0
        /\ turns[t].pc = "done"
        /\ conversations[turns[t].conversation_id].mode = "dual"
        /\ conversations[turns[t].conversation_id].updated_at
                > conversations[turns[t].conversation_id].created_at

\* C16: a user record, of any type, is added only by a request that carries
\* the valid token of an existing admin.
C16_OnlyAdminsCreateUsers ==
    [][users' # users => resp'.role = "admin"]_vars

\* ---------------------------------------------------------------------
\* Fusion: which chunk stands for a content, and the order of ties (SpecFusion).

\* (list, rank) comes before (list, rank): an earlier list, or the same list
\* and a smaller rank.
Before(p, q) == p[1] < q[1] \/ (p[1] = q[1] /\ p[2] < q[2])

\* Where a content is first seen: lists in the order supplied, each by rank.
FirstSeen(key) ==
    CHOOSE p \in Occurrences(key) : \A q \in Occurrences(key) : p = q \/ Before(p, q)

\* C17: the chunk fusion returns for a content is the chunk of the content's
\* first occurrence, metadata included, taking the lists in the order supplied
\* and each list in rank order.
C17_FirstOccurrenceMetadata ==
    ens_pc = "returned" =>
        \A i \in 1..Len(sorted_docs) :
            LET p == FirstSeen(sorted_docs[i].page_content)
            IN  sorted_docs[i] = all_results[p[1]][p[2] + 1]

\* A content came back under two different metadata, from two lists.
C17_Witness ==
    /\ ens_pc = "returned"
    /\ \E i \in 1..Len(sorted_docs) :
        \E q \in Occurrences(sorted_docs[i].page_content) :
            /\ q[1] # FirstSeen(sorted_docs[i].page_content)[1]
            /\ all_results[q[1]][q[2] + 1].metadata # sorted_docs[i].metadata

\* C18: of two returned chunks with equal fused score, the one first seen
\* earlier (an earlier list, or the same list and a smaller rank) comes first.
C18_TiesInOrderOfFirstAppearance ==
    ens_pc = "returned" =>
        \A i, j \in 1..Len(sorted_docs) :
            (/\ i < j
             /\ rrf_score[sorted_docs[i].page_content]
                    = rrf_score[sorted_docs[j].page_content])
            => Before(FirstSeen(sorted_docs[i].page_content),
                      FirstSeen(sorted_docs[j].page_content))

\* Two contents with equal scores were returned, first seen in different lists.
C18_Witness ==
    /\ ens_pc = "returned"
    /\ \E i, j \in 1..Len(sorted_docs) :
            /\ i < j
            /\ rrf_score[sorted_docs[i].page_content]
                    = rrf_score[sorted_docs[j].page_content]
            /\ FirstSeen(sorted_docs[i].page_content)[1]
                    < FirstSeen(sorted_docs[j].page_content)[1]

\* ---------------------------------------------------------------------
\* Failures inside a turn.

\* C19: at no retrieval call site, whichever retriever the module built, does
\* the failure of a backend query make the turn fail: no turn ends Failed at its
\* retrieval or at the retrieval of its context.
C19_BackendFailureNeverFailsTurn ==
    resp.turn # 0 => resp.failed_at \notin {"retrieval", "context"}

\* C20: when the rewriting call of the LLM fails the turn ends Failed, having
\* queried no retriever, made no answer call and stored no message; a turn that
\* called the rewriter and goes on holds the rewriter's output as its query.
C20_RewriteFailureIsFatal ==
    /\ resp.failed_at = "rewrite" =>
            /\ resp.status = 500
            /\ resp.answer = None
            /\ resp.calls = <<"history.messages", "llm.rewrite">>
            /\ turns[resp.turn].pc = "failed"
            /\ StoredBy(resp.turn) = {}
    /\ \A t \in 1..Len(turns) :
            (turns[t].pc \notin {"rewriting", "done", "failed"}
                /\ \E i \in 1..Len(turns[t].calls) : turns[t].calls[i] = "llm.rewrite")
            => turns[t].standalone_query = "standalone question"

\* The second turn of a conversation failed at the rewriting call.
C20_Witness ==
    /\ resp.failed_at = "rewrite"
    /\ resp.status = 500
    /\ Len(Messages(HistoryId(resp.turn))) = 2

\* ---------------------------------------------------------------------
\* The standalone query of a turn (SpecChat).

\* How often a call occurs in a log, and the calls of the LLM in a log.
Count(log, call) == Cardinality({i \in 1..Len(log) : log[i] = call})

LlmCalls(log) == {i \in 1..Len(log) : log[i] \in {"llm.rewrite", "llm.answer"}}

RetrieverCalls(log) ==
    {i \in 1..Len(log) : log[i] \in {"retriever.public", "retriever.secure"}}

\* C21: a turn that finds its session's history empty goes on to retrieval
\* with the user input unchanged as its standalone query and without a call of
\* the LLM; every retriever of such a turn is given the user input, and the
\* only LLM call the turn ever makes is the answer call.
C21_EmptyHistoryNoRewrite ==
    /\ [][\A t \in 1..Len(turns) :
            (/\ turns[t].pc = "rewriting"
             /\ Messages(HistoryId(t)) = <<>>
             /\ turns'[t].pc = "retrieving")
            => /\ turns'[t].standalone_query = turns[t].user_input
               /\ turns'[t].rewrite_input = None
               /\ turns'[t].calls = <<"history.messages">>]_vars
    /\ [](\A t \in 1..Len(turns) :
            (turns[t].calls # <<>> /\ Count(turns[t].calls, "llm.rewrite") = 0)
            => /\ \A i \in 1..Len(turns[t].queries) :
                        turns[t].queries[i].query = turns[t].user_input
               /\ \A i \in LlmCalls(turns[t].calls) :
                        /\ turns[t].calls[i] = "llm.answer"
                        /\ LlmCalls(turns[t].calls) = {i})
    /\ []((resp.turn # 0 /\ resp.status = 200
                /\ Count(resp.calls, "llm.rewrite") = 0)
            => \E i \in 1..Len(resp.calls) :
                    /\ resp.calls[i] = "llm.answer"
                    /\ LlmCalls(resp.calls) = {i})

\* A turn that found no history has answered.
C21_Witness ==
    /\ resp.turn # 0
    /\ resp.status = 200
    /\ Len(resp.calls) > 1
    /\ resp.calls[2] # "llm.rewrite"
    /\ Count(resp.calls, "llm.answer") = 1

\* C22: a turn that finds history makes one rewriting call of the LLM, with
\* the history and the user input, and goes on with the call's output as its
\* standalone query; every retriever call of the turn, the chain's included,
\* is given that output and not the user input.
C22_RewriteOutputIsTheQuery ==
    /\ [][\A t \in 1..Len(turns) :
            (/\ turns[t].pc = "rewriting"
             /\ Messages(HistoryId(t)) # <<>>
             /\ turns'[t].pc = "retrieving")
            => /\ turns'[t].calls = <<"history.messages", "llm.rewrite">>
               /\ turns'[t].rewrite_input.input = turns[t].user_input
               /\ turns'[t].rewrite_input.chat_history
                        = HistoryItems(history[HistoryId(t)])
               /\ turns'[t].standalone_query = "standalone question"]_vars
    /\ [](\A t \in 1..Len(turns) :
            Count(turns[t].calls, "llm.rewrite") > 0
            => /\ Count(turns[t].calls, "llm.rewrite") = 1
               /\ turns[t].standalone_query # turns[t].user_input
               /\ Len(turns[t].queries)
                        = Cardinality(RetrieverCalls(turns[t].calls))
               /\ \A i \in 1..Len(turns[t].queries) :
                        turns[t].queries[i].query = turns[t].standalone_query)
    /\ [](Count(resp.calls, "llm.rewrite") <= 1)

\* A dual turn that rewrote its query has queried both partitions twice, for
\* its chunks and for the context of the answer.
C22_Witness ==
    \E t \in 1..Len(turns) :
        /\ turns[t].pc = "persist_user"
        /\ Count(turns[t].calls, "llm.rewrite") = 1
        /\ Len(turns[t].queries) = 4

\* ---------------------------------------------------------------------
\* A turn that retrieved nothing.

\* C23: a turn all of whose retrieval lists are empty does not fail for that:
\* it makes the answer call with a context that says there is no context, not
\* with an empty one, and completes with an answer and an empty sources list.
C23_EmptyRetrievalMarksNoContext ==
    /\ \A t \in 1..Len(turns) :
            (/\ turns[t].pc \in {"persist_user", "persist_ai"}
             /\ AllDocs(turns[t].public_docs, turns[t].secure_docs) = <<>>
             /\ turns[t].context = <<>>)
            => (turns[t].answer # None /\ turns[t].context_text # "")
    /\ (resp.turn # 0 /\ resp.status = 200 /\ resp.docs = <<>>
            /\ resp.context = <<>>)
            => (resp.answer # None /\ resp.sources = {} /\ resp.context_text # "")

\* ---------------------------------------------------------------------
\* Turns of one session that overlap (SpecChat).

\* Where, under its session's key, the messages of a chat call are.
PositionsOf(t) ==
    {i \in 1..Len(Messages(HistoryId(t))) : Messages(HistoryId(t))[i].turn = t}

\* C24: of two completed turns of one session, the user/assistant pair of the
\* one that completed first lies entirely before the pair of the other: their
\* messages are never interleaved.
C24_TurnsNeverInterleave ==
    \A t1, t2 \in 1..Len(turns) :
        (/\ t1 # t2
         /\ turns[t1].pc = "done" /\ turns[t2].pc = "done"
         /\ HistoryId(t1) = HistoryId(t2))
        => \/ \A p \in PositionsOf(t1), q \in PositionsOf(t2) : p < q
           \/ \A p \in PositionsOf(t1), q \in PositionsOf(t2) : q < p

\* ---------------------------------------------------------------------
\* The order of the stages of a turn (SpecChat).

\* The stage a backend call belongs to: 1 rewriting, 2 retrieval and fusion,
\* 3 generation, 4 persisting; 0 for a read of the history, which the
\* rewriting and the generation both make.
StageOf(call) ==
    CASE call = "llm.rewrite" -> 1
      [] call \in {"retriever.public", "retriever.secure"} -> 2
      [] call = "llm.answer" -> 3
      [] call \in {"history.add_user_message", "history.add_ai_message"} -> 4
      [] OTHER -> 0

InStageOrder(log) ==
    \A i, j \in 1..Len(log) :
        (i < j /\ StageOf(log[i]) # 0 /\ StageOf(log[j]) # 0)
            => StageOf(log[i]) <= StageOf(log[j])

\* The answer call comes after the retrievers of the mode have been queried,
\* and the user message is stored before the assistant message.
AnswerAfterRetrieval(log, mode) ==
    \A j \in 1..Len(log) :
        /\ log[j] = "llm.answer" =>
                /\ \E i \in 1..(j - 1) : log[i] = "retriever.public"
                /\ mode = "dual" => \E i \in 1..(j - 1) : log[i] = "retriever.secure"
        /\ log[j] = "history.add_user_message" =>
                \E i \in 1..(j - 1) : log[i] = "llm.answer"
        /\ log[j] = "history.add_ai_message" =>
                \E i \in 1..(j - 1) : log[i] = "history.add_user_message"

\* C25: a chat call is begun only for the owner of a conversation whose mode
\* the owner may use; its backend calls come in the order rewriting, retrieval
\* (with fusion), generation, persisting, the answer call after the retrievers
\* of its mode have answered; the response of a completed turn follows the
\* assistant message; and a turn that has failed or completed takes no
\* further step.
C25_StagesInOrder ==
    /\ [](\A t \in 1..Len(turns) :
            /\ conversations[turns[t].conversation_id].user_id = turns[t].user_id
            /\ turns[t].mode
                    \in allowed_conversation_modes_for(users[turns[t].user_id].type)
            /\ InStageOrder(turns[t].calls)
            /\ AnswerAfterRetrieval(turns[t].calls, turns[t].mode)
            /\ turns[t].pc = "rewriting" => turns[t].calls = <<>>
            /\ turns[t].pc = "retrieving" =>
                    RetrieverCalls(turns[t].calls) = {}
            /\ turns[t].pc \in {"retrieving", "retrieving_secure", "generating"} =>
                    Count(turns[t].calls, "llm.answer") = 0
            /\ turns[t].pc = "persist_user" =>
                    Count(turns[t].calls, "llm.answer") = 1)
    /\ [](resp.turn # 0 =>
            /\ InStageOrder(resp.calls)
            /\ AnswerAfterRetrieval(resp.calls, resp.target_mode)
            /\ resp.status = 200 =>
                    /\ resp.calls[Len(resp.calls)] = "history.add_ai_message"
                    /\ turns[resp.turn].pc = "done"
            /\ resp.status # 200 =>
                    /\ resp.status = 500
                    /\ turns[resp.turn].pc = "failed")
    /\ [][\A t \in 1..Len(turns) :
            turns[t].pc \in {"failed", "done"} => turns'[t] = turns[t]]_vars

\* A dual turn that rewrote its query has answered, and another turn of the
\* same conversation has failed at its generation.
C25_Witness ==
    /\ resp.turn # 0
    /\ resp.status = 200
    /\ resp.target_mode = "dual"
    /\ Count(resp.calls, "llm.rewrite") = 1
    /\ \E t \in 1..Len(turns) : turns[t].pc = "failed"

\* ---------------------------------------------------------------------
\* What a failed turn leaves behind.

\* C26: a turn that has ended Failed, at whatever stage, has left nothing in
\* the stored history: no message of the store was put there by it.
C26_FailedTurnLeavesHistory ==
    \A t \in 1..Len(turns) : turns[t].pc = "failed" => StoredBy(t) = {}

\* ---------------------------------------------------------------------
\* Fusion: a content that recurs in one list (SpecFusion).

\* The same call with list i answering nothing.
WithoutList(i) ==
    get_relevant_documents(
        [j \in 1..Len(retrievers) |-> IF j = i THEN Returns(<<>>) ELSE retrievers[j]],
        EffectiveWeights)

\* What list i adds to the fused score of key.
ContributionOf(i, key) ==
    rrf_score[key] - (IF key \in DOMAIN WithoutList(i).rrf_score
                      THEN WithoutList(i).rrf_score[key] ELSE 0)

\* C27 as stated: a list that holds a content at more than one rank adds
\* exactly one term weight / (rank + 60) to the content's fused score.
C27_RepeatedContentCountsOnce ==
    ens_pc = "returned" =>
        \A i \in 1..Len(all_results) : \A key \in DOMAIN rrf_score :
            Cardinality(RanksIn(i, key)) > 1 =>
                \E r \in RanksIn(i, key) :
                    ContributionOf(i, key)
                        = EffectiveWeights[i] * (ScoreDen \div (r + 60))

\* C27 amended: a list adds to a content's fused score one term
\* weight / (rank + 60) for every rank at which it holds the content, so a
\* list holding it at two ranks adds two terms.
C27_RepeatedContentCountsPerRank ==
    ens_pc = "returned" =>
        \A i \in 1..Len(all_results) : \A key \in DOMAIN rrf_score :
            ContributionOf(i, key)
                = SumOver(RanksIn(i, key),
                          [r \in RanksIn(i, key) |->
                              EffectiveWeights[i] * (ScoreDen \div (r + 60))])

\* A list holds a content at its first and at its third rank, and the other
\* list holds the content too.
C27_Witness ==
    /\ ens_pc = "returned"
    /\ Len(all_results) = 2
    /\ \E key \in DOMAIN rrf_score :
            /\ RanksIn(1, key) = {0, 2}
            /\ RanksIn(2, key) # {}

\* ---------------------------------------------------------------------
\* The keys of the history store.

\* Session-id strings a caller of the legacy routes may send, some of them made
\* to look like the keys of other sessions.
CallerSessionIds ==
    SessionIds \cup {"", "u2_c0:default_user", "dual_u1_c1", "u1_c1"}

\* The session contexts of the chat routes: a user, a conversation (id) or a
\* legacy session (sid), and a mode.
SessionContexts ==
    [kind : {"conversation"}, user_id : 1..Len(users),
     id : 1..(MaxConvs + 1), sid : {None}, mode : ConversationMode]
    \cup
    [kind : {"legacy"}, user_id : 1..Len(users),
     id : {0}, sid : CallerSessionIds, mode : ConversationMode]

\* The key under which the send route of a context has the chat function
\* append, and the key its history route reads.
KeyWritten(c) ==
    LET session_id ==
            IF c.kind = "conversation" THEN neo_session_key(c.user_id, c.id)
            ELSE legacy_session_id(IF c.mode = "public" THEN "legacy_public:"
                                   ELSE "legacy_dual:", c.user_id, c.sid)
    IN  IF c.mode = "public" THEN session_id ELSE dual_session_id(session_id)

KeyRead(c) ==
    LET session_id ==
            IF c.kind = "conversation" THEN neo_session_key(c.user_id, c.id)
            ELSE legacy_session_id(IF c.mode = "public" THEN "legacy_public:"
                                   ELSE "legacy_dual:", c.user_id, c.sid)
    IN  IF c.mode = "public" THEN session_id ELSE dual_history_key(session_id)

\* The session context of a chat call.
ContextOf(tr) ==
    [kind |-> IF tr.conversation_id = 0 THEN "legacy" ELSE "conversation",
     user_id |-> tr.user_id, id |-> tr.conversation_id, sid |-> tr.sid,
     mode |-> tr.mode]

\* C28: the key under which a chat call keeps its history is the key of its
\* own session context, and no request of a context that differs from it in
\* user, in conversation or legacy session id, or in mode writes or reads that
\* key, whatever session id its caller sends; every stored message lies under
\* the key of the context of the call that stored it.
C28_HistoryKeyInjective ==
    /\ \A t \in 1..Len(turns) :
            /\ ContextOf(turns[t]) \in SessionContexts
            /\ HistoryId(t) = KeyWritten(ContextOf(turns[t]))
            /\ \A c \in SessionContexts :
                    c # ContextOf(turns[t])
                        => HistoryId(t) \notin {KeyWritten(c), KeyRead(c)}
    /\ \A key \in DOMAIN history : \A i \in 1..Len(history[key]) :
            key = KeyWritten(ContextOf(turns[history[key][i].turn]))

\* Two users of one role exist and a legacy dual turn has stored its messages
\* under the session id both of them would send.
C28_Witness ==
    /\ Len(users) = 2
    /\ users[1].type = users[2].type
    /\ \E t \in 1..Len(turns) :
            /\ turns[t].route = "chat_dual"
            /\ Len(Messages(HistoryId(t))) = 2

\* What the history route of a session context lists, given the store.
Listing(store, c) ==
    IF KeyRead(c) \in DOMAIN store THEN HistoryItems(store[KeyRead(c)]) ELSE <<>>

\* C29: the history route of a session context reads the key under which the
\* send route of that context appends: when a turn completes, the listing for
\* its context ends with the turn's user message and then its assistant
\* message.
C29_ListingEndsWithTheTurn ==
    [][\A t \in 1..Len(turns) :
        (turns[t].pc = "persist_ai" /\ turns'[t].pc = "done") =>
            LET items == Listing(history', ContextOf(turns[t]))
                n     == Len(items)
            IN  /\ KeyRead(ContextOf(turns[t])) = HistoryId(t)
                /\ n >= 2
                /\ items[n - 1] = [role |-> "user", content |-> turns[t].user_input,
                                   turn |-> t]
                /\ items[n] = [role |-> "assistant", content |-> turns[t].answer,
                               turn |-> t]]_vars

\* ---------------------------------------------------------------------
\* A conversation of somebody else.

\* The response answers a send or history request of an authenticated caller
\* for a conversation that another user owns.
ForOthersConversation(r) ==
    /\ r.route \in {"conversation_send", "conversation_history"}
    /\ r.user_id # 0
    /\ r.conversation_id \in 1..Len(conversations)
    /\ conversations[r.conversation_id].user_id # r.user_id

\* C30: a send or history request for a conversation of another user is
\* rejected with 403 with no retriever, LLM or history-store call made; the
\* request leaves the stored history, the chat calls and the conversation's
\* row (title, updated_at) as they were; and no chat call exists for a
\* conversation that its caller does not own.
C30_OtherOwnerRejected ==
    /\ [](ForOthersConversation(resp) => (Rejected(resp) /\ resp.status = 403))
    /\ [](\A t \in 1..Len(turns) : turns[t].conversation_id # 0 =>
            conversations[turns[t].conversation_id].user_id = turns[t].user_id)
    /\ [][(resp = NoResp /\ ForOthersConversation(resp')) =>
            UNCHANGED <<history, turns, conversations, clock>>]_vars

\* After a turn of its owner, a conversation was sent to by another user.
C30_Witness ==
    /\ ForOthersConversation(resp)
    /\ resp.route = "conversation_send"
    /\ resp.status = 403
    /\ \E t \in 1..Len(turns) :
            /\ turns[t].conversation_id = resp.conversation_id
            /\ turns[t].pc = "done"

====
